---- MODULE Spec2Model ----
(***************************************************************************)
(* Model of package agilekeychain (emerose/passync): loading a 1Password   *)
(* AgileKeychain, i.e. NewAgileKeychain -> loadContents ->                 *)
(* loadEncryptionKeys -> decryptKey / validateKey -> cbcDecrypt -> unpad,  *)
(* extractSalt, deriveOpensslKey.                                          *)
(*                                                                         *)
(* Byte slices are Go slices: a backing array from the slice's first byte  *)
(* to its capacity, and a length.  AES, PBKDF2, MD5 are symbolic: a key is *)
(* the term that derives it, a ciphertext is the term [key, plain, other]  *)
(* that decrypts to plain under key and to other under any other key.      *)
(***************************************************************************)
EXTENDS Integers, Sequences, FiniteSets, TLC

VARIABLES
    pc,            \* position in NewAgileKeychain / loadEncryptionKeys / validateKey
    outcome,       \* "running", "ok" (handle, nil), "error" (nil, err), "panic"
    errmsg,        \* the error NewAgileKeychain returns
    handle,        \* the *AgileKeychain returned, NilHandle when nil
    contents,      \* k.contents
    nKeys,         \* len(raw.List)
    ix,            \* 1-based index of the record the range loop is at
    data,          \* loadEncryptionKeys: data (decoded rawKey.Data)
    validation,    \* loadEncryptionKeys: validation (decoded rawKey.Validation)
    keyBytes,      \* loadEncryptionKeys: keyBytes, the slice decryptKey returned
    keyErr,        \* decryptKey: err after line 217, which line 219 drops
    loadErr,       \* loadEncryptionKeys: err from line 187 until line 188 assigns it
    vsalt,         \* validateKey: salt
    vblob,         \* validateKey: blob
    vkey,          \* validateKey: kek, iv
    vresult,       \* validateKey: validationResult
    validated,     \* the records logged "Found and validated key", in order, each
                   \* with the error decryptKey had met on it ("" when none)
    processed,     \* identifiers of the records the loop body was entered for
    vaultPass,     \* the passphrase the vault's keys were wrapped with
    primFn,        \* primitives harness: the function applied
    primArg,       \* primitives harness: its argument
    primRet        \* primitives harness: its result

vars == << pc, outcome, errmsg, handle, contents, nKeys, ix, data, validation,
           keyBytes, keyErr, loadErr, vsalt, vblob, vkey, vresult, validated,
           processed, vaultPass, primFn, primArg, primRet >>

pipeVars == << pc, outcome, errmsg, handle, contents, nKeys, ix, data, validation,
               keyBytes, keyErr, loadErr, vsalt, vblob, vkey, vresult, validated,
               processed, vaultPass >>

primVars == << primFn, primArg, primRet >>

(***************************************************************************)
(* Bounds                                                                  *)
(***************************************************************************)
MaxKeys == 2
MaxEntries == 2
MaxBlocks == 1
MaxNuls == 2
MaxFill == 31
MaxTail == 2

(***************************************************************************)
(* Program constants                                                       *)
(***************************************************************************)
BlockSize == 16
SaltLen == 8
HeaderLen == 16
EntryArity == 8

Magic == << 83, 97, 108, 116, 101, 100, 95, 95 >>

Byte == 0..255

Fill(n, b) == [j \in 1..n |-> b]

(***************************************************************************)
(* Go slices                                                               *)
(***************************************************************************)
MkSlice(bytes) == [arr |-> bytes, len |-> Len(bytes)]

NilSlice == [arr |-> << >>, len |-> 0]

Cap(s) == Len(s.arr)

View(s) == SubSeq(s.arr, 1, s.len)

\* s[lo:hi] for 0 <= lo <= hi <= cap(s), 0-based as in Go
Reslice(s, lo, hi) == [arr |-> SubSeq(s.arr, lo + 1, Cap(s)), len |-> hi - lo]

\* bytes.Equal: nil and empty are equal
BytesEqual(a, b) == View(a) = View(b)

\* append(s, more...): in place when the capacity allows, else a fresh array
append(s, more) ==
    IF s.len + Len(more) <= Cap(s)
    THEN [arr |-> [j \in 1..Cap(s) |->
                      IF j > s.len /\ j <= s.len + Len(more)
                      THEN more[j - s.len] ELSE s.arr[j]],
          len |-> s.len + Len(more)]
    ELSE MkSlice(View(s) \o more)

(***************************************************************************)
(* Results of the functions                                                *)
(***************************************************************************)
Ok(v) == [st |-> "ok", err |-> "", out |-> v]

Err(msg) == [st |-> "err", err |-> msg, out |-> NilSlice]

Panic(msg) == [st |-> "panic", err |-> msg, out |-> NilSlice]

(***************************************************************************)
(* unpad: remove pkcs7 padding                                             *)
(***************************************************************************)
\* mutant: the pad size compared with >= instead of >
unpad_GE(d, blocksize) ==
    IF blocksize <= 0 THEN Err("Invalid block size")
    ELSE IF d.len = 0 THEN Err("Invalid data")
    ELSE IF d.len % blocksize # 0 THEN Err("Input is not a multiple of blocksize")
    ELSE LET lastByte == d.arr[d.len]
             padSize == lastByte
         IN  IF padSize = 0 \/ padSize >= d.len THEN Err("Invalid pad size")
             ELSE IF \E j \in (d.len - padSize + 1)..d.len : d.arr[j] # lastByte
             THEN Err("Invalid padding")
             ELSE Ok(Reslice(d, 0, d.len - padSize))

\* mutant: the padding bytes are not compared with the last byte
unpad_NoCheck(d, blocksize) ==
    IF blocksize <= 0 THEN Err("Invalid block size")
    ELSE IF d.len = 0 THEN Err("Invalid data")
    ELSE IF d.len % blocksize # 0 THEN Err("Input is not a multiple of blocksize")
    ELSE LET lastByte == d.arr[d.len]
             padSize == lastByte
         IN  IF padSize = 0 \/ padSize > d.len THEN Err("Invalid pad size")
             ELSE Ok(Reslice(d, 0, d.len - padSize))

unpad(d, blocksize) ==
    IF blocksize <= 0 THEN Err("Invalid block size")
    ELSE IF d.len = 0 THEN Err("Invalid data")
    ELSE IF d.len % blocksize # 0 THEN Err("Input is not a multiple of blocksize")
    ELSE LET lastByte == d.arr[d.len]
             padSize == lastByte
         IN  IF padSize = 0 \/ padSize > d.len THEN Err("Invalid pad size")
             ELSE IF \E j \in (d.len - padSize + 1)..d.len : d.arr[j] # lastByte
             THEN Err("Invalid padding")
             ELSE Ok(Reslice(d, 0, d.len - padSize))

(***************************************************************************)
(* extractSalt: the OpenSSL "Salted__" header                              *)
(***************************************************************************)
SaltOk(salt, blob) == [st |-> "ok", err |-> "", salt |-> salt, blob |-> blob]

SaltFail(st, msg) == [st |-> st, err |-> msg, salt |-> NilSlice, blob |-> NilSlice]

extractSalt(input) ==
    IF Cap(input) < SaltLen
    THEN SaltFail("panic", "slice bounds out of range")          \* input[0:8]
    ELSE IF SubSeq(input.arr, 1, SaltLen) = Magic
    THEN IF Cap(input) < HeaderLen
         THEN SaltFail("panic", "slice bounds out of range")     \* input[8:16]
         ELSE IF input.len < HeaderLen
         THEN SaltFail("panic", "slice bounds out of range")     \* input[16:]
         ELSE SaltOk(Reslice(input, SaltLen, HeaderLen),
                     Reslice(input, HeaderLen, input.len))
    ELSE SaltFail("err", "No OpenSSL salt found")

(***************************************************************************)
(* Symbolic key derivation and AES-128-CBC                                 *)
(***************************************************************************)
\* pbkdf2.Key(passphrase, salt, iterations, 32, sha1.New)
Pbkdf2Key(passphrase, salt, iterations) ==
    [kdf |-> "pbkdf2-sha1", pass |-> passphrase, salt |-> salt,
     iter |-> iterations, size |-> 2 * BlockSize]

\* derivedKey[lo:hi]
KeySlice(k, lo, hi) == [of |-> k, lo |-> lo, hi |-> hi, size |-> hi - lo]

\* md5.Sum of the concatenation of the parts
MD5(parts) == [md5 |-> parts, size |-> BlockSize]

\* mutant: secret||salt is built over the end of the secret
deriveOpensslKey_Overlap(password, salt) ==
    LET short == [arr |-> password.arr,
                  len |-> IF password.len > 0 THEN password.len - 1 ELSE 0]
        d     == append(short, View(salt))
        h0    == MD5(<< View(d) >>)
        h1    == MD5(<< h0, View(d) >>)
    IN  [key |-> h0, iv |-> h1,
         password |-> IF short.len + salt.len <= Cap(password)
                      THEN [arr |-> d.arr, len |-> password.len]
                      ELSE password]

\* deriveOpensslKey also returns password as the caller sees it afterwards:
\* append may have written the salt into password's spare capacity
deriveOpensslKey(password, salt) ==
    LET d  == append(password, View(salt))
        h0 == MD5(<< View(d) >>)
        h1 == MD5(<< h0, View(d) >>)
    IN  [key |-> h0, iv |-> h1,
         password |-> IF password.len + salt.len <= Cap(password)
                      THEN [arr |-> d.arr, len |-> password.len]
                      ELSE password]

\* EVP_BytesToKey (MD5, two rounds) as the vault's writer computes it
LegacyKeyOf(secret, salt) ==
    << MD5(<< secret \o salt >>), MD5(<< MD5(<< secret \o salt >>), secret \o salt >>) >>

\* decrypter.CryptBlocks(ret, blob): ct is the term blob's bytes stand for
CryptBlocks(ct, blob, key, iv) ==
    IF blob.len % BlockSize # 0
    THEN Panic("crypto/cipher: input not full blocks")
    ELSE IF blob.len = 0 THEN Ok(MkSlice(<< >>))
    ELSE IF << key, iv >> = ct.key THEN Ok(MkSlice(ct.plain))
    ELSE Ok(MkSlice(ct.other))

cbcDecrypt(ct, blob, key, iv) ==
    IF ~ (key.size \in {16, 24, 32}) THEN Err("crypto/aes: invalid key size")
    ELSE LET r == CryptBlocks(ct, blob, key, iv)
         IN  IF r.st = "panic" THEN r ELSE unpad(r.out, BlockSize)

(***************************************************************************)
(* Plaintexts a ciphertext of n bytes can stand for (n > 0, 16 | n)        *)
(***************************************************************************)
KeyFills == {170, 187}

DataFills == {170}

Padded(n, f) == { Fill(n - k, f) \o Fill(k, k) : k \in 1..BlockSize }

BadPad(n, f) == { Fill(n - 1, f) \o << 0 >>,
                  Fill(n - 1, f) \o << n + 1 >>,
                  Fill(n - 2, f) \o << 9, 2 >> }

\* every padding of the first fill, every bad padding, one byte of padding of the others
PlainOfLen(n, fills) ==
    UNION { IF f = 170 THEN Padded(n, f) \cup BadPad(n, f) ELSE { Fill(n - 1, f) \o << 1 >> } :
              f \in fills }

Garbage(n) == { Fill(n - 1, 85) \o << 0 >>,
                Fill(n - 1, 85) \o << 1 >>,
                Fill(n - BlockSize, 85) \o Fill(BlockSize, BlockSize) }

NoCt == [key |-> << >>, plain |-> << >>, other |-> << >>]

\* the terms a blob of n ciphertext bytes can stand for: encrypted under one of
\* keys, of a plaintext whose leading bytes are one of fills
Ciphertexts(n, keys, fills) ==
    IF n = 0 \/ n % BlockSize # 0 THEN { NoCt }
    ELSE { [key |-> k, plain |-> p, other |-> g] :
              k \in keys, p \in PlainOfLen(n, fills), g \in Garbage(n) }

(***************************************************************************)
(* contents.js: a JSON array of arrays, decoded into []interface{}         *)
(***************************************************************************)
JStr(x) == [t |-> "string", s |-> x, n |-> 0]

\* a JSON number, in tenths (json decodes it into a float64)
JNum(x) == [t |-> "number", s |-> "", n |-> x]

JNull == [t |-> "null", s |-> "", n |-> 0]

\* int(tmp) of a float64: truncation toward zero
IntOf(tenths) == IF tenths >= 0 THEN tenths \div 10 ELSE -((-tenths) \div 10)

\* entry[i].(string), entry[i].(float64): the value (zero when !ok) and ok
AsString(v) == [val |-> IF v.t = "string" THEN v.s ELSE "", ok |-> v.t = "string"]

AsFloat(v) == [val |-> IF v.t = "number" THEN v.n ELSE 0, ok |-> v.t = "number"]

\* a well-formed entry, with up to two more elements after the eighth
FullEntry == << JStr("id"), JStr("webforms.WebForm"), JStr("title"), JStr("site"),
                JNum(12345), JStr("u1"), JNum(-7), JStr("u3"), JStr("x9"), JNum(10) >>

BadValues == { JNum(15), JStr("oops"), JNull }

\* the entries the model feeds loadContents: FullEntry cut to n elements, with
\* at most one element replaced by a value of another type
RawEntries ==
    { SubSeq(FullEntry, 1, n) : n \in {0, 1, EntryArity - 1, EntryArity, EntryArity + 1} }
    \cup { [FullEntry EXCEPT ![q[1]] = q[2]] :
             q \in { x \in (1..EntryArity) \X BadValues : x[2].t # FullEntry[x[1]].t } }
    \cup { SubSeq([FullEntry EXCEPT ![p] = JNull], 1, n) :
             p \in {1, EntryArity}, n \in {EntryArity - 1, EntryArity + 1} }

RECURSIVE SeqsUpTo(_, _)
SeqsUpTo(S, n) ==
    IF n = 0 THEN { << >> }
    ELSE LET shorter == SeqsUpTo(S, n - 1)
         IN  shorter \cup { Append(q, x) : q \in { r \in shorter : Len(r) = n - 1 }, x \in S }

ContentsFiles ==
    { [status |-> "missing", entries |-> << >>], [status |-> "badjson", entries |-> << >>] }
    \cup { [status |-> "ok", entries |-> es] : es \in SeqsUpTo(RawEntries, MaxEntries) }

ContentsResult(st, msg, out, at) == [st |-> st, err |-> msg, out |-> out, at |-> at]

\* one pass of the range loop's body over entry: the cooked entry, or why not
CookEntry(entry) ==
    IF Len(entry) < EntryArity
    THEN [st |-> "panic", e |-> << >>]            \* entry[i]: index out of range
    ELSE LET id        == AsString(entry[1])
             entryType == AsString(entry[2])
             title     == AsString(entry[3])
             site      == AsString(entry[4])
             date      == AsFloat(entry[5])
             unknown1  == AsString(entry[6])
             unknown2  == AsFloat(entry[7])
             unknown3  == AsString(entry[8])
             allOk     == /\ id.ok /\ entryType.ok /\ title.ok /\ site.ok /\ date.ok
                          /\ unknown1.ok /\ unknown2.ok /\ unknown3.ok
         IN  IF ~ allOk THEN [st |-> "err", e |-> << >>]
             ELSE [st |-> "ok",
                   e  |-> [id |-> id.val, entryType |-> entryType.val,
                           title |-> title.val, site |-> site.val,
                           date |-> IntOf(date.val), unknown1 |-> unknown1.val,
                           unknown2 |-> IntOf(unknown2.val), unknown3 |-> unknown3.val]]

RECURSIVE CookFrom(_, _, _)
CookFrom(raw, i, cooked) ==
    IF i > Len(raw) THEN ContentsResult("ok", "", cooked, 0)
    ELSE LET r == CookEntry(raw[i])
         IN  IF r.st = "panic"
             THEN ContentsResult("panic", "index out of range", << >>, i)
             ELSE IF r.st = "err"
             THEN ContentsResult("err", "Failed to parse keychain contents entry", << >>, i)
             ELSE CookFrom(raw, i + 1, Append(cooked, r.e))

\* loadContents: what it returns and, in out, what it stores in k.contents
loadContents(file) ==
    IF file.status = "missing" THEN ContentsResult("err", "open contents.js", << >>, 0)
    ELSE IF file.status = "badjson" THEN ContentsResult("err", "json", << >>, 0)
    ELSE CookFrom(file.entries, 1, << >>)

(***************************************************************************)
(* encryptionKeys.js: the base64 texts of a key record                     *)
(***************************************************************************)
\* a text: valid base64 of payload (or not: bad), then nuls NUL characters
B64Text(payload, bad, nuls) == [payload |-> payload, bad |-> bad, nuls |-> nuls]

stripTrailingNull(str) ==
    IF str.nuls > 0 THEN [str EXCEPT !.nuls = @ - 1] ELSE str

\* base64.StdEncoding.DecodeString: the buffer is DecodedLen long, 3 bytes per
\* 4 characters, and the result is its first n bytes
DecodeString(str) ==
    IF str.bad \/ str.nuls > 0 THEN Err("illegal base64 data")
    ELSE LET n == Len(str.payload)
             c == 3 * ((n + 2) \div 3)
         IN  Ok([arr |-> str.payload \o Fill(c - n, 0), len |-> n])

Salts == { << 1, 2, 3, 4, 5, 6, 7, 8 >> }

\* Magic (or not), salt, ciphertext bytes, cut to n bytes
BlobBytes(magic, salt, n) ==
    SubSeq((IF magic THEN Magic ELSE << 88 >> \o Tail(Magic)) \o salt
             \o Fill(BlockSize * MaxBlocks, 199), 1, n)

CtLens == {0} \cup { BlockSize * b : b \in 1..MaxBlocks }
              \cup { BlockSize * b - 1 : b \in 1..MaxBlocks }

BlobLens == {0, 7, 8, 15} \cup { HeaderLen + c : c \in CtLens }

\* with the magic at every length, without it at three
Blobs == { BlobBytes(TRUE, s, n) : s \in Salts, n \in BlobLens }
         \cup { BlobBytes(FALSE, s, n) : s \in Salts, n \in {7, 8, HeaderLen + BlockSize} }

\* every blob with no or one trailing NUL, one blob with more, and bad base64
Texts == { B64Text(b, FALSE, k) : b \in Blobs, k \in 0..1 }
         \cup { B64Text(BlobBytes(TRUE, s, HeaderLen + BlockSize), FALSE, k) :
                   s \in Salts, k \in 2..MaxNuls }
         \cup { B64Text(<< >>, TRUE, k) : k \in 0..1 }

Iterations == {1000}

RawKeys == { [Data |-> d, Validation |-> v, Iterations |-> it] :
               d \in Texts, v \in Texts, it \in Iterations }

Passphrases == {"1Password", "other"}

(***************************************************************************)
(* decryptKey                                                              *)
(***************************************************************************)
\* the key and IV a writer wraps a key under: PBKDF2-SHA1, 32 bytes, split
WrapKeyOf(passphrase, salt, iterations) ==
    << KeySlice(Pbkdf2Key(passphrase, salt, iterations), 0, BlockSize),
       KeySlice(Pbkdf2Key(passphrase, salt, iterations), BlockSize, 2 * BlockSize) >>

\* st: "ret" (returned) or "panic"; key, err: what it returns; dropped: the
\* error of cbcDecrypt, which line 219 does not return
DecryptResult(st, key, err, dropped) ==
    [st |-> st, key |-> key, err |-> err, dropped |-> dropped]

decryptKey(dataBytes, iterations, passphrase, ct) ==
    LET s == extractSalt(dataBytes)
    IN  IF s.st = "panic" THEN DecryptResult("panic", NilSlice, s.err, "")
        ELSE IF s.st = "err" THEN DecryptResult("ret", NilSlice, s.err, "")
        ELSE LET derivedKey == Pbkdf2Key(passphrase, View(s.salt), iterations)
                 kek == KeySlice(derivedKey, 0, 16)
                 iv  == KeySlice(derivedKey, 16, 32)
                 r   == cbcDecrypt(ct, s.blob, kek, iv)
             IN  IF r.st = "panic" THEN DecryptResult("panic", NilSlice, r.err, "")
                 ELSE DecryptResult("ret", r.out, "", r.err)

(***************************************************************************)
(* NewAgileKeychain, step by step                                          *)
(***************************************************************************)
NilHandle == [nil |-> TRUE, contents |-> << >>]

NoErr == [wrap |-> "", id |-> 0, cause |-> ""]

PlainErr(msg) == [wrap |-> "", id |-> 0, cause |-> msg]

\* fmt.Errorf("Failed to validate key %s: %v", rawKey.Identifier, err)
ValidateErr(id, msg) == [wrap |-> "Failed to validate key", id |-> id, cause |-> msg]

Init ==
    /\ pc = "start"
    /\ outcome = "running"
    /\ errmsg = NoErr
    /\ handle = NilHandle
    /\ contents = << >>
    /\ nKeys = 0
    /\ ix = 0
    /\ data = NilSlice
    /\ validation = NilSlice
    /\ keyBytes = NilSlice
    /\ keyErr = ""
    /\ loadErr = ""
    /\ vsalt = NilSlice
    /\ vblob = NilSlice
    /\ vkey = << >>
    /\ vresult = NilSlice
    /\ validated = << >>
    /\ processed = << >>
    /\ vaultPass = "1Password"
    /\ primFn = "none"
    /\ primArg = << >>
    /\ primRet = << >>

\* return nil, err
ReturnErr(e) ==
    /\ pc' = "done"
    /\ outcome' = "error"
    /\ errmsg' = e
    /\ handle' = NilHandle

\* a panic unwinds NewAgileKeychain: nothing is returned
Crash(msg) ==
    /\ pc' = "done"
    /\ outcome' = "panic"
    /\ errmsg' = PlainErr(msg)
    /\ handle' = NilHandle

\* lines 46-66: the path is made absolute and must be an existing directory
Stat ==
    /\ pc = "start"
    /\ \E kind \in {"dir", "file", "missing", "staterr", "getwderr"} :
          CASE kind = "getwderr" -> ReturnErr(PlainErr("getwd"))
            [] kind = "missing"  -> ReturnErr(PlainErr("Non-existent AgileKeychain path"))
            [] kind = "staterr"  -> Crash("nil pointer dereference")   \* fileinfo.IsDir()
            [] kind = "file"     -> ReturnErr(PlainErr("AgileKeychain path not a directory"))
            [] kind = "dir"      -> /\ pc' = "loadContents"
                                    /\ UNCHANGED << outcome, errmsg, handle >>
    /\ UNCHANGED << contents, nKeys, ix, data, validation, keyBytes, keyErr, loadErr,
                    vsalt, vblob, vkey, vresult, validated, processed, vaultPass >>
    /\ UNCHANGED primVars

\* lines 68-71
LoadContents ==
    /\ pc = "loadContents"
    /\ \E file \in ContentsFiles :
          LET r == loadContents(file)
          IN  CASE r.st = "panic" -> Crash(r.err) /\ UNCHANGED contents
                [] r.st = "err"   -> ReturnErr([wrap |-> "", id |-> r.at, cause |-> r.err])
                                     /\ UNCHANGED contents
                [] r.st = "ok"    -> /\ contents' = r.out
                                     /\ pc' = "openKeys"
                                     /\ UNCHANGED << outcome, errmsg, handle >>
    /\ UNCHANGED << nKeys, ix, data, validation, keyBytes, keyErr, loadErr,
                    vsalt, vblob, vkey, vresult, validated, processed, vaultPass >>
    /\ UNCHANGED primVars

\* lines 158-171: encryptionKeys.js is opened and decoded
OpenKeys ==
    /\ pc = "openKeys"
    /\ \E status \in {"missing", "badjson", "ok"}, n \in 0..MaxKeys, p \in Passphrases :
          IF status # "ok"
          THEN /\ ReturnErr(PlainErr(status))
               /\ UNCHANGED << nKeys, ix, vaultPass >>
          ELSE /\ nKeys' = n
               /\ ix' = 1
               /\ vaultPass' = p
               /\ pc' = "loop"
               /\ UNCHANGED << outcome, errmsg, handle >>
    /\ UNCHANGED << contents, data, validation, keyBytes, keyErr, loadErr,
                    vsalt, vblob, vkey, vresult, validated, processed >>
    /\ UNCHANGED primVars

\* lines 194 and 78: the range is exhausted, the handle is returned
LoopExit ==
    /\ pc = "loop"
    /\ ix > nKeys
    /\ pc' = "done"
    /\ outcome' = "ok"
    /\ handle' = [nil |-> FALSE, contents |-> contents]
    /\ UNCHANGED << errmsg, contents, nKeys, ix, data, validation, keyBytes, keyErr,
                    loadErr, vsalt, vblob, vkey, vresult, validated, processed, vaultPass >>
    /\ UNCHANGED primVars

\* the per-record locals of loadEncryptionKeys and validateKey go out of scope
ClearLocals ==
    /\ data' = NilSlice
    /\ validation' = NilSlice
    /\ keyBytes' = NilSlice
    /\ keyErr' = ""
    /\ loadErr' = ""
    /\ vsalt' = NilSlice
    /\ vblob' = NilSlice
    /\ vkey' = << >>
    /\ vresult' = NilSlice

\* lines 173-185: the next record's texts are stripped and decoded
ReadRecord ==
    /\ pc = "loop"
    /\ ix <= nKeys
    /\ processed' = Append(processed, ix)
    /\ \E rawKey \in RawKeys :
          LET d == DecodeString(stripTrailingNull(rawKey.Data))
              v == DecodeString(stripTrailingNull(rawKey.Validation))
          IN  IF d.st = "err"
              THEN ReturnErr(PlainErr(d.err)) /\ UNCHANGED << data, validation >>
              ELSE IF v.st = "err"
              THEN ReturnErr(PlainErr(v.err)) /\ UNCHANGED << data, validation >>
              ELSE /\ data' = d.out
                   /\ validation' = v.out
                   /\ pc' = "decryptKey"
                   /\ UNCHANGED << outcome, errmsg, handle >>
    /\ UNCHANGED << contents, nKeys, ix, keyBytes, keyErr, loadErr, vsalt, vblob, vkey,
                    vresult, validated, vaultPass >>
    /\ UNCHANGED primVars

\* line 187: keyBytes, err := decryptKey(data, rawKey.Iterations, passphrase)
DecryptKey ==
    /\ pc = "decryptKey"
    /\ \E it \in Iterations :
          LET s == extractSalt(data)
              n == IF s.st = "ok" THEN s.blob.len ELSE 0
          IN  \E ct \in Ciphertexts(n, { WrapKeyOf(vaultPass, View(s.salt), it) }, DataFills) :
                 LET r == decryptKey(data, it, "1Password", ct)
                 IN  IF r.st = "panic"
                     THEN Crash(r.err) /\ ClearLocals
                     ELSE /\ keyBytes' = r.key
                          /\ loadErr' = r.err
                          /\ keyErr' = r.dropped
                          /\ pc' = "validateKey"
                          /\ UNCHANGED << outcome, errmsg, handle, data, validation,
                                          vsalt, vblob, vkey, vresult >>
    /\ UNCHANGED << contents, nKeys, ix, validated, processed, vaultPass >>
    /\ UNCHANGED primVars

\* lines 188 and 223-226: err = validateKey(keyBytes, validation), its extractSalt
ValidateSalt ==
    /\ pc = "validateKey"
    /\ LET s == extractSalt(validation)
       IN  CASE s.st = "panic" -> Crash(s.err) /\ ClearLocals
             [] s.st = "err"   -> ReturnErr(ValidateErr(ix, s.err)) /\ ClearLocals
             [] s.st = "ok"    -> /\ vsalt' = s.salt
                                  /\ vblob' = s.blob
                                  /\ pc' = "derive"
                                  /\ UNCHANGED << outcome, errmsg, handle, data, validation,
                                                  keyBytes, keyErr, loadErr, vkey, vresult >>
    /\ UNCHANGED << contents, nKeys, ix, validated, processed, vaultPass >>
    /\ UNCHANGED primVars

\* line 228: kek, iv := deriveOpensslKey(keyBytes, salt)
ValidateDerive ==
    /\ pc = "derive"
    /\ LET r == deriveOpensslKey(keyBytes, vsalt)
       IN  /\ vkey' = << r.key, r.iv >>
           /\ keyBytes' = r.password
    /\ pc' = "vdecrypt"
    /\ UNCHANGED << outcome, errmsg, handle, contents, nKeys, ix, data, validation, keyErr,
                    loadErr, vsalt, vblob, vresult, validated, processed, vaultPass >>
    /\ UNCHANGED primVars

OtherSecret == << 99 >>

\* lines 230-233: validationResult, err := cbcDecrypt(blob, kek, iv)
ValidateDecrypt ==
    /\ pc = "vdecrypt"
    /\ \E ct \in Ciphertexts(vblob.len, { LegacyKeyOf(View(keyBytes), View(vsalt)),
                                          LegacyKeyOf(OtherSecret, View(vsalt)) },
                             KeyFills) :
          LET r == cbcDecrypt(ct, vblob, vkey[1], vkey[2])
          IN  CASE r.st = "panic" -> Crash(r.err) /\ ClearLocals
                [] r.st = "err"   -> ReturnErr(ValidateErr(ix, r.err)) /\ ClearLocals
                [] r.st = "ok"    -> /\ vresult' = r.out
                                     /\ pc' = "compare"
                                     /\ UNCHANGED << outcome, errmsg, handle, data, validation,
                                                     keyBytes, keyErr, loadErr, vsalt, vblob,
                                                     vkey >>
    /\ UNCHANGED << contents, nKeys, ix, validated, processed, vaultPass >>
    /\ UNCHANGED primVars

\* lines 235-238 and 188-191: the comparison; validateKey returns and err is assigned
ValidateCompare ==
    /\ pc = "compare"
    /\ IF ~ BytesEqual(keyBytes, vresult)
       THEN /\ ReturnErr(ValidateErr(ix, "key validation failed"))
            /\ ClearLocals
       ELSE /\ pc' = "validated"
            /\ vsalt' = NilSlice
            /\ vblob' = NilSlice
            /\ vkey' = << >>
            /\ vresult' = NilSlice
            /\ UNCHANGED << outcome, errmsg, handle, data, validation, keyBytes, keyErr,
                            loadErr >>
    /\ UNCHANGED << contents, nKeys, ix, validated, processed, vaultPass >>
    /\ UNCHANGED primVars

\* line 192 and the end of the loop body: the log line, the next record
LogValidated ==
    /\ pc = "validated"
    /\ validated' = Append(validated,
                           [id |-> ix, err |-> IF loadErr # "" THEN loadErr ELSE keyErr])
    /\ ix' = ix + 1
    /\ pc' = "loop"
    /\ ClearLocals
    /\ UNCHANGED << outcome, errmsg, handle, contents, nKeys, processed, vaultPass >>
    /\ UNCHANGED primVars

Next ==
    \/ Stat
    \/ LoadContents
    \/ OpenKeys
    \/ LoopExit
    \/ ReadRecord
    \/ DecryptKey
    \/ ValidateSalt
    \/ ValidateDerive
    \/ ValidateDecrypt
    \/ ValidateCompare
    \/ LogValidated

Spec == Init /\ [][Next]_vars

(***************************************************************************)
(* The primitives applied to inputs of their own                           *)
(***************************************************************************)
FillBytes == {2, 16, 17}

TailBytes == {0, 1, 2, 16, 17}

BlockSizes == {-1, 0, 1, 2, 3, BlockSize}

\* byte strings: a run of one byte, then up to MaxTail bytes
ByteStrings == { Fill(n, f) \o t : n \in 0..MaxFill, f \in FillBytes,
                                   t \in SeqsUpTo(TailBytes, MaxTail) }

\* slices of up to a header and MaxTail bytes, with or without the magic, of
\* every length and capacity
SaltInputs ==
    { [arr |-> BlobBytes(m, s, c), len |-> n] :
        m \in BOOLEAN, s \in Salts,
        c \in 0..(HeaderLen + MaxTail), n \in 0..(HeaderLen + MaxTail) }

InitPrim ==
    /\ pc = "primitives"
    /\ outcome = "running"
    /\ errmsg = NoErr
    /\ handle = NilHandle
    /\ contents = << >>
    /\ nKeys = 0
    /\ ix = 0
    /\ data = NilSlice
    /\ validation = NilSlice
    /\ keyBytes = NilSlice
    /\ keyErr = ""
    /\ loadErr = ""
    /\ vsalt = NilSlice
    /\ vblob = NilSlice
    /\ vkey = << >>
    /\ vresult = NilSlice
    /\ validated = << >>
    /\ processed = << >>
    /\ vaultPass = "1Password"
    /\ primFn = "none"
    /\ primArg = << >>
    /\ primRet = << >>

ApplyUnpad ==
    /\ primFn = "none"
    /\ \E b \in ByteStrings, bs \in BlockSizes :
          /\ primFn' = "unpad"
          /\ primArg' = [data |-> b, blocksize |-> bs]
          /\ primRet' = unpad(MkSlice(b), bs)
    /\ UNCHANGED pipeVars

\* pad as the round-trip law defines it
pad(bytes, blocksize) ==
    bytes \o Fill(blocksize - (Len(bytes) % blocksize), blocksize - (Len(bytes) % blocksize))

ApplyPadUnpad ==
    /\ primFn = "none"
    /\ \E b \in ByteStrings :
          /\ primFn' = "pad-unpad"
          /\ primArg' = [data |-> b, blocksize |-> BlockSize]
          /\ primRet' = unpad(MkSlice(pad(b, BlockSize)), BlockSize)
    /\ UNCHANGED pipeVars

ApplyExtractSalt ==
    /\ primFn = "none"
    /\ \E input \in { x \in SaltInputs : x.len <= Cap(x) } :
          /\ primFn' = "extractSalt"
          /\ primArg' = input
          /\ primRet' = extractSalt(input)
    /\ UNCHANGED pipeVars

HarnessKey == LegacyKeyOf(OtherSecret, << 1, 2, 3, 4, 5, 6, 7, 8 >>)

ApplyCbcDecrypt ==
    /\ primFn = "none"
    /\ \E n \in 0..(BlockSize * MaxBlocks + 1) :
          \E ct \in Ciphertexts(n, { HarnessKey }, DataFills) :
             /\ primFn' = "cbcDecrypt"
             /\ primArg' = [len |-> n, ct |-> ct]
             /\ primRet' = cbcDecrypt(ct, MkSlice(Fill(n, 199)), HarnessKey[1], HarnessKey[2])
    /\ UNCHANGED pipeVars

ApplyLoadContents ==
    /\ primFn = "none"
    /\ \E file \in ContentsFiles :
          /\ primFn' = "loadContents"
          /\ primArg' = file
          /\ primRet' = loadContents(file)
    /\ UNCHANGED pipeVars

NextPrim ==
    \/ ApplyLoadContents
    \/ ApplyUnpad
    \/ ApplyPadUnpad
    \/ ApplyExtractSalt
    \/ ApplyCbcDecrypt

SpecPrim == InitPrim /\ [][NextPrim]_vars

(***************************************************************************)
(* Properties of the primitives (checked under SpecPrim)                   *)
(***************************************************************************)
\* the reference definition of PKCS#7 unpadding on a non-empty byte string:
\* with p the last byte, it fails when this holds, else it drops p bytes
RefUnpadFails(b) ==
    LET p == b[Len(b)]
    IN  p = 0 \/ p > Len(b) \/ \E j \in (Len(b) - p + 1)..Len(b) : b[j] # p

RefUnpadded(b) == SubSeq(b, 1, Len(b) - b[Len(b)])

AgreesWithRef(b, r) ==
    IF RefUnpadFails(b) THEN r.st = "err"
    ELSE r.st = "ok" /\ View(r.out) = RefUnpadded(b)

\* C8, as stated: unpad agrees with the reference definition for every
\* (non-empty) input byte string, here at the block size 16 of its only caller
C8_UnpadAgreesOnEveryInput ==
    (primFn = "unpad" /\ primArg.blocksize = BlockSize /\ primArg.data # << >>)
        => AgreesWithRef(primArg.data, primRet)

\* C8, amended: unpad agrees with the reference definition for every positive
\* block size and every non-empty input whose length is a multiple of it; for every
\* other block size or input (empty, or not a multiple) it fails
C8_UnpadAgreesOnBlockMultiples ==
    primFn = "unpad" =>
        IF /\ primArg.blocksize > 0
           /\ primArg.data # << >>
           /\ Len(primArg.data) % primArg.blocksize = 0
        THEN AgreesWithRef(primArg.data, primRet)
        ELSE primRet.st = "err"

\* a padding of more than one byte was removed from two blocks of 16
C8_Witness ==
    /\ primFn = "unpad"
    /\ primArg.blocksize = BlockSize
    /\ Len(primArg.data) = 2 * BlockSize
    /\ primRet.st = "ok"
    /\ primRet.out.len < Len(primArg.data) - 1
    /\ primRet.out.len > 0

\* C9: for block size 16 and every byte string, unpadding its padding succeeds
\* and gives the byte string back
C9_PadUnpadRoundTrip ==
    primFn = "pad-unpad" =>
        (primRet.st = "ok" /\ View(primRet.out) = primArg.data)

\* a byte string of a whole block was padded with a block of 16s and recovered
C9_Witness ==
    /\ primFn = "pad-unpad"
    /\ Len(primArg.data) = BlockSize
    /\ primRet.st = "ok"
    /\ View(primRet.out) = primArg.data
    /\ Cap(primRet.out) = 2 * BlockSize

\* C5: extractSalt returns an error, and does not crash, for every input shorter
\* than 16 bytes or without the magic; for every input of 16 or more bytes with
\* the magic it returns bytes 8..15 as the salt and the rest as the ciphertext
C5_ExtractSaltFailsOrSplits ==
    primFn = "extractSalt" =>
        LET bytes == View(primArg)
        IN  IF Len(bytes) >= HeaderLen /\ SubSeq(bytes, 1, SaltLen) = Magic
            THEN /\ primRet.st = "ok"
                 /\ View(primRet.salt) = SubSeq(bytes, SaltLen + 1, HeaderLen)
                 /\ View(primRet.blob) = SubSeq(bytes, HeaderLen + 1, Len(bytes))
            ELSE primRet.st = "err"

\* C6: cbcDecrypt returns an error, and neither crashes nor gives a plaintext,
\* for every ciphertext whose length is zero or not a multiple of 16
C6_CbcDecryptRejectsBadLength ==
    (primFn = "cbcDecrypt" /\ (primArg.len = 0 \/ primArg.len % BlockSize # 0))
        => primRet.st = "err"

\* the positional types of an entry: string x 4, number, string, number, string
EntryTypes == << "string", "string", "string", "string",
                 "number", "string", "number", "string" >>

WellFormedEntry(e) ==
    /\ Len(e) = EntryArity
    /\ \A i \in 1..EntryArity : e[i].t = EntryTypes[i]

\* C7: loadContents fails with an error that names the first malformed entry, and
\* stores nothing, when an entry has not exactly 8 elements or has an element of
\* the wrong type; otherwise it returns one entry per JSON entry, in order
C7_ParseEntriesStrict ==
    (primFn = "loadContents" /\ primArg.status = "ok") =>
        LET es  == primArg.entries
            bad == { i \in 1..Len(es) : ~ WellFormedEntry(es[i]) }
        IN  IF bad # {}
            THEN /\ primRet.st = "err"
                 /\ primRet.out = << >>
                 /\ primRet.at = CHOOSE i \in bad : \A j \in bad : i <= j
            ELSE /\ primRet.st = "ok"
                 /\ Len(primRet.out) = Len(es)
                 /\ \A i \in 1..Len(es) : primRet.out[i].id = es[i][1].s

(***************************************************************************)
(* Properties of the load (checked under Spec)                             *)
(***************************************************************************)
InValidateKey == pc \in {"validateKey", "derive", "vdecrypt", "compare"}

\* C1: the load accepts a record (logs it validated, and goes on to complete)
\* only if a candidate key was obtained for it and the validation plaintext is
\* byte-equal to that candidate
C1_AcceptedOnlyIfObtainedAndEqual ==
    /\ \A j \in 1..Len(validated) : validated[j].err = ""
    /\ pc = "loop" => Len(validated) = ix - 1
    /\ outcome = "ok" => Len(validated) = nKeys

\* C2: when decrypting or unpadding a record's data ciphertext fails, the record
\* is not carried forward to validation and is not accepted
C2_DecryptFailureStopsRecord ==
    InValidateKey => keyErr = ""

\* C3: records are processed in list order; a record that cannot be decoded,
\* decrypted or validated ends the load, so a later record is processed only
\* after every earlier one yielded a validated candidate; and a failed load
\* returns an error with a nil handle
C3_WholeBatch ==
    /\ processed = [j \in 1..Len(processed) |-> j]
    /\ Len(processed) > 1 =>
          \A j \in 1..(Len(processed) - 1) :
             j <= Len(validated) /\ validated[j].id = j /\ validated[j].err = ""
    /\ outcome = "error" => handle.nil
    /\ outcome = "ok" => errmsg = NoErr

\* C4: with a passphrase other than the one the vault was wrapped with, no
\* record is accepted, in particular none whose wrong-key bytes had an invalid
\* padding (the case stated here: such a record is never logged as validated)
C4_WrongPassphraseNothingAccepted ==
    vaultPass # "1Password" =>
        \A j \in 1..Len(validated) :
           validated[j].err \notin {"Invalid pad size", "Invalid padding"}

\* C10: from deriveOpensslKey on, validateKey leaves the candidate's bytes as they
\* are, also when append writes the salt into the spare capacity behind them; and
\* deriving again from the candidate as it is afterwards gives the same key and IV
C10_ValidationKeepsCandidate ==
    [][ /\ (pc \in {"derive", "vdecrypt", "compare"}
              /\ pc' \in {"vdecrypt", "compare", "validated"})
            => View(keyBytes') = View(keyBytes)
        /\ pc = "derive"
            => LET again == deriveOpensslKey(keyBytes', vsalt)
               IN  /\ vkey' = << again.key, again.iv >>
                   /\ vkey' = LegacyKeyOf(View(keyBytes), View(vsalt)) ]_vars

\* validateKey has returned nil for a candidate behind whose bytes append wrote
\* the salt, over the padding
C10_Witness ==
    /\ pc = "validated"
    /\ keyBytes.len > 0
    /\ Cap(keyBytes) - keyBytes.len >= SaltLen
    /\ SubSeq(keyBytes.arr, keyBytes.len + 1, keyBytes.len + SaltLen)
          = SubSeq(validation.arr, SaltLen + 1, HeaderLen)

====
